---- MODULE Spec2Model ----
(***************************************************************************)
(* Sunbiz scraper: the scrape pipeline of main.py (fetch_sunbiz_data and   *)
(* its address predicates) and the Telegram job queue of telegram_bot.py   *)
(* (handle_message, queue_worker, run_fetch_sync).                         *)
(*                                                                         *)
(* Strings that the code inspects character by character (addresses, the   *)
(* seen-store file) are sequences of one-character strings.                *)
(***************************************************************************)
EXTENDS Integers, Sequences, FiniteSets, TLC

\* ------------------------------------------------------------------ bounds
\* Longest chain of result rows the registry serves for a search.
MaxRows == 2
\* Largest number of rows one listing page holds.
MaxPageSize == 2
\* Largest max_results a direct caller of fetch_sunbiz_data passes.
MaxN == 1
\* Number of inbound chat messages of one behaviour.
MaxMsgs == 2
\* Longest string _normalize_address is applied to on its own.
MaxLen == 3

\* ------------------------------------------------------------ characters
UpperLetters == <<"A","B","C","D","E","F","G","H","I","J","K","L","M",
                  "N","O","P","Q","R","S","T","U","V","W","X","Y","Z">>
LowerLetters == <<"a","b","c","d","e","f","g","h","i","j","k","l","m",
                  "n","o","p","q","r","s","t","u","v","w","x","y","z">>
Digits == {"0","1","2","3","4","5","6","7","8","9"}

\* The characters of the model in code-point order (str comparison of sorted()).
CodeOrder == <<"\t","\n","\r"," ",".","0","1","2","3","4","5","6","7","8","9">>
               \o UpperLetters \o <<"_">> \o LowerLetters

Code(c) == CHOOSE i \in 1..Len(CodeOrder) : CodeOrder[i] = c

\* str.isspace() on the characters of the model.
IsSpace(c) == c \in {" ", "\n", "\t", "\r"}

\* The line boundaries of str.splitlines() on the characters of the model.
IsLineBreak(c) == c \in {"\n", "\r"}

\* A regex word character (\w), for the \b anchors of PO_BOX_PATTERN.
IsWordChar(c) ==
    \/ c \in Digits
    \/ c = "_"
    \/ \E i \in 1..26 : c = UpperLetters[i] \/ c = LowerLetters[i]

\* re.IGNORECASE: compare lower-cased.
LowerChar(c) ==
    IF \E i \in 1..26 : UpperLetters[i] = c
    THEN LowerLetters[CHOOSE i \in 1..26 : UpperLetters[i] = c]
    ELSE c

\* str.strip()
RECURSIVE LStrip(_)
LStrip(s) == IF s # <<>> /\ IsSpace(Head(s)) THEN LStrip(Tail(s)) ELSE s

RECURSIVE RStrip(_)
RStrip(s) ==
    IF s # <<>> /\ IsSpace(s[Len(s)]) THEN RStrip(SubSeq(s, 1, Len(s) - 1)) ELSE s

Strip(s) == RStrip(LStrip(s))

\* str.replace("\n", " ")
ReplaceNewline(s) == [i \in 1..Len(s) |-> IF s[i] = "\n" THEN " " ELSE s[i]]

\* str.split(): the maximal runs of non-whitespace characters.
RECURSIVE SplitWs(_, _)
SplitWs(s, word) ==
    IF s = <<>>
    THEN IF word = <<>> THEN <<>> ELSE <<word>>
    ELSE IF IsSpace(Head(s))
         THEN (IF word = <<>> THEN <<>> ELSE <<word>>) \o SplitWs(Tail(s), <<>>)
         ELSE SplitWs(Tail(s), Append(word, Head(s)))

\* sep.join(parts)
RECURSIVE Join(_, _)
Join(parts, sep) ==
    IF parts = <<>> THEN <<>>
    ELSE IF Len(parts) = 1 THEN parts[1]
    ELSE parts[1] \o sep \o Join(Tail(parts), sep)

\* str.splitlines()
RECURSIVE SplitLines(_, _)
SplitLines(s, line) ==
    IF s = <<>>
    THEN IF line = <<>> THEN <<>> ELSE <<line>>
    ELSE IF IsLineBreak(Head(s))
         THEN <<line>> \o SplitLines(Tail(s), <<>>)
         ELSE SplitLines(Tail(s), Append(line, Head(s)))

\* Lexicographic order by code point: s < t.
RECURSIVE StrLess(_, _)
StrLess(s, t) ==
    IF t = <<>> THEN FALSE
    ELSE IF s = <<>> THEN TRUE
    ELSE IF Head(s) = Head(t) THEN StrLess(Tail(s), Tail(t))
    ELSE Code(Head(s)) < Code(Head(t))

\* sorted(set of str)
RECURSIVE SortedSeq(_)
SortedSeq(S) ==
    IF S = {} THEN <<>>
    ELSE LET m == CHOOSE x \in S : \A y \in S \ {x} : StrLess(x, y)
         IN  <<m>> \o SortedSeq(S \ {m})

\* ------------------------------------------------------ address predicates
\* PO_BOX_PATTERN, as the set of positions a match can end at when it starts
\* at position i of s. A position is the index of the next unread character.
StartsAt(s, i, lit) ==
    /\ i + Len(lit) - 1 <= Len(s)
    /\ \A k \in 1..Len(lit) : LowerChar(s[i + k - 1]) = lit[k]

\* P followed by the literal lit.
Lit(s, P, lit) == {i + Len(lit) : i \in {j \in P : StartsAt(s, j, lit)}}

\* P followed by \.?
OptDot(s, P) == P \cup Lit(s, P, <<".">>)

\* P followed by \s*
Spaces(s, P) ==
    {j \in 1..(Len(s) + 1) :
        \E i \in P : i <= j /\ \A k \in i..(j - 1) : IsSpace(s[k])}

\* \b at position i.
WordBoundary(s, i) ==
    LET before == i > 1 /\ i - 1 <= Len(s) /\ IsWordChar(s[i - 1])
        after  == i >= 1 /\ i <= Len(s) /\ IsWordChar(s[i])
    IN  before # after

\* p\.?\s*o\.?\s*box
PoBoxAlt1(s, i) ==
    Lit(s, Spaces(s, OptDot(s, Lit(s, Spaces(s, OptDot(s, Lit(s, {i}, <<"p">>))),
                                   <<"o">>))), <<"b","o","x">>)

\* post\s*office\s*box
PoBoxAlt2(s, i) ==
    Lit(s, Spaces(s, Lit(s, Spaces(s, Lit(s, {i}, <<"p","o","s","t">>)),
                         <<"o","f","f","i","c","e">>)), <<"b","o","x">>)

\* p\.?o\.?\.?box
PoBoxAlt3(s, i) ==
    Lit(s, OptDot(s, OptDot(s, Lit(s, OptDot(s, Lit(s, {i}, <<"p">>)), <<"o">>))),
        <<"b","o","x">>)

\* PO_BOX_PATTERN.search(text)
PoBoxSearch(s) ==
    \E i \in 1..Len(s) :
        /\ WordBoundary(s, i)
        /\ \E j \in PoBoxAlt1(s, i) \cup PoBoxAlt2(s, i) \cup PoBoxAlt3(s, i) :
               WordBoundary(s, j)

\* _is_po_box_or_empty(text)
IsPoBoxOrEmpty(text) ==
    IF text = <<>> \/ Strip(text) = <<>> THEN TRUE ELSE PoBoxSearch(text)

\* Line breaks replaced and the ends trimmed, the runs of whitespace kept.
NormalizeNoSplit(addr) == Strip(ReplaceNewline(addr))

\* _normalize_address(addr)
NormalizeAddress(addr) == Strip(Join(SplitWs(ReplaceNewline(addr), <<>>), <<" ">>))

\* ------------------------------------------------------------ the registry
Oak    == <<"1","0","0"," ","O","a","k"," ","A","v","e">>
OakRaw == <<"1","0","0"," "," ","O","a","k","\n","A","v","e">>
PoBox  == <<"P","O"," ","B","o","x"," ","9">>
Elm    == <<"7"," ","E","l","m"," ","S","t">>

\* The detail pages of the registry, as _extract_detail_sections returns them:
\* label -> value (values already stripped).
DetailPages ==
    << ("Principal Address" :> Oak) @@ ("Mailing Address" :> Oak),
       ("Principal Address" :> OakRaw) @@ ("Status" :> <<"A">>),
       ("Principal Address" :> PoBox) @@ ("Mailing Address" :> PoBox),
       ("Principal Address" :> PoBox) @@ ("Mailing Address" :> Elm),
       ("Principal Address" :> Elm),
       ("Mailing Address" :> Elm) @@ ("Status" :> <<"A">>) >>

DetailKinds == 1..Len(DetailPages)

\* "address" in key.lower(), on the labels of DetailPages.
IsAddressKey(key) == key \in {"Principal Address", "Mailing Address"}

\* _has_valid_address(details)
HasValidAddress(details) ==
    \E key \in DOMAIN details :
        /\ IsAddressKey(key)
        /\ details[key] # <<>>
        /\ ~IsPoBoxOrEmpty(details[key])

\* details.get("Principal Address", "").strip()
PrincipalOf(details) ==
    IF "Principal Address" \in DOMAIN details
    THEN Strip(details["Principal Address"])
    ELSE <<>>

\* Search terms a caller passes.
TermWater   == <<"W","a","t","e","r">>
TermPlumber == <<"P","L","U","M","B","E","R">>
Terms == {TermWater, TermPlumber}

\* str.lower().replace(" ", "")
RECURSIVE LowerNoSpaces(_)
LowerNoSpaces(t) ==
    IF t = <<>> THEN <<>>
    ELSE IF Head(t) = " " THEN LowerNoSpaces(Tail(t))
    ELSE <<LowerChar(Head(t))>> \o LowerNoSpaces(Tail(t))

\* The function f with every value computed: the same function, as a table.
Table(f) == f @@ <<>>

\* term.lower().replace(" ", ""), computed once for each term.
TermCleanOf == Table([t \in Terms |-> LowerNoSpaces(t)])
TermClean(t) == IF t \in Terms THEN TermCleanOf[t] ELSE LowerNoSpaces(t)

TermKeys == {TermClean(t) : t \in Terms}

\* Every chain of result rows of at most n rows.
RECURSIVE RowChains(_)
RowChains(n) ==
    IF n = 0 THEN {<<>>}
    ELSE LET shorter == RowChains(n - 1)
         IN  shorter \cup {Append(c, k) : c \in {x \in shorter : Len(x) = n - 1},
                                          k \in DetailKinds}

Sites == RowChains(MaxRows)

\* A listing of three rows: a PO-Box entity, then twice the same street address.
ThreeRows == <<3, 1, 1>>

\* An optional value: <<>> is None, <<v>> is v.
None == <<>>
Some(v) == <<v>>

VARIABLES
    site,        \* the registry's result rows (detail kinds), in chain order
    pageSize,    \* rows per listing page
    seenFiles,   \* term key -> None | Some(text of <term>_seen.txt)
    txtFiles,    \* the names of the <term><n>.txt files that exist
    jsonFile,    \* None | Some(results) : sunbiz_data.json
    fpc,         \* fetch_sunbiz_data: program position
    fterm,       \* search_term
    fmax,        \* max_results: None | Some(n)
    fseen,       \* seen_path: None | Some(term key)
    results,     \* results
    seen,        \* seen
    seen0,       \* seen as loaded (history)
    curPage,     \* current_url: 0 is None, p is the p-th listing page
    rowIdx,      \* position of the for loop in rows
    browser,     \* number of open Camoufox sessions
    gotos,       \* fetch_sunbiz_data: page.goto calls that have loaded a page
    fprog,       \* fetch_sunbiz_data: whether on_progress is given
    progress,    \* the numbers on_progress has been called with, in order
    prev         \* the call before this one, if it returned (history)
                 \* None | Some([term, full]): full when the cap did not stop it

VARIABLES
    max_addresses, \* [telegram] max_addresses of config.ini
    queue,       \* request_queue: the jobs put and not yet got, oldest first
    queue_size,  \* queue_size
    loop,        \* the coroutine the event loop is running
    hpc,         \* handle_message for message m: program position
    hjob,        \* handle_message for message m: (chat id, keyword, count)
    hparts,      \* handle_message for message m: parts[1:], while it runs
    hpos,        \* handle_message for message m: pos
    wpc,         \* queue_worker: program position
    wjob,        \* queue_worker: chat_id, keyword, count: None | Some(job)
    wtxt,        \* queue_worker: txt_path: None | Some(name)
    inFlight,    \* jobs whose run_fetch_sync the executor holds, not yet done
    future,      \* the result of the executor's call: None | Some(txt_path)
    status,      \* what became of message m (history)
    enq,         \* the jobs in the order they were put (history)
    enqPos,      \* length of the FIFO right after m's job was put (history)
    jobTxt       \* text list written by the run of the worker's job (history)

VARIABLES
    npc,         \* _normalize_address applied to inputs: position
    nAddr,       \* an input string
    nOther,      \* another input string
    nOnce,       \* _normalize_address(nAddr)
    nOtherOnce,  \* _normalize_address(nOther)
    nTwice       \* _normalize_address(nOnce)

normVars == <<npc, nAddr, nOther, nOnce, nOtherOnce, nTwice>>

botVars == <<max_addresses, queue, queue_size, loop, hpc, hparts, hjob, hpos, wpc, wjob,
             wtxt, inFlight, future, status, enq, enqPos, jobTxt>>

fetchVars == <<fpc, fterm, fmax, fseen, results, seen, seen0, curPage, rowIdx,
               browser, gotos, fprog, progress>>
mainVars == <<prev>>
callerVars == <<mainVars, botVars, normVars>>
fileVars == <<seenFiles, txtFiles, jsonFile>>
siteVars == <<site, pageSize>>

\* Number of listing pages: a chain of pages linked by "Next List".
NumPages ==
    IF Len(site) = 0 THEN 1 ELSE (Len(site) + pageSize - 1) \div pageSize

\* Global row indexes listed on page p, in table order (_extract_search_results).
PageRows(p) ==
    LET first == (p - 1) * pageSize + 1
        last  == IF p * pageSize < Len(site) THEN p * pageSize ELSE Len(site)
    IN  [i \in 1..(last - first + 1) |-> first + i - 1]

\* A last page whose "Next List" link leads to the page itself.
GetNextListUrlSelfLink(p) == IF p < NumPages THEN p + 1 ELSE p

\* _get_next_list_url(page) on listing page p: 0 is None.
GetNextListUrl(p) == IF p < NumPages THEN p + 1 ELSE 0

\* The seen set read from a seen-store file (lines 126-130).
LoadSeen(file) ==
    IF file = None THEN {}
    ELSE LET lines == SplitLines(file[1], <<>>)
         IN  {Strip(lines[i]) : i \in {j \in 1..Len(lines) : Strip(lines[j]) # <<>>}}

\* The seen set joined with spaces in place of line breaks.
SeenTextOneLine(S) == Join(SortedSeq(S), <<" ">>)

\* "\n".join(sorted(seen))
SeenText(S) == Join(SortedSeq(S), <<"\n">>)

\* The cap compared with > in place of >=.
CapReachedOffByOne(max, res) == max # None /\ Len(res) > max[1]

\* max_results is not None and len(results) >= max_results
CapReached(max, res) == max # None /\ Len(res) >= max[1]

\* The for loop without the break of line 143.
RowLoopNoBreak(max, res, p, idx) ==
    IF idx > Len(PageRows(p)) THEN "after_rows" ELSE "rows"

\* Where the for loop over rows stands once it is at index idx with results res:
\* it runs another iteration, or it is left (exhausted, or the break of line 143).
RowLoop(max, res, p, idx) ==
    IF idx > Len(PageRows(p)) \/ CapReached(max, res) THEN "after_rows" ELSE "rows"

\* Per detail page, what lines 151-156 compute from it.
DetailValid == Table([k \in DetailKinds |-> HasValidAddress(DetailPages[k])])
DetailPrincipal == Table([k \in DetailKinds |-> PrincipalOf(DetailPages[k])])
DetailNormalized == Table([k \in DetailKinds |-> NormalizeAddress(DetailPrincipal[k])])

\* A seen-store file as a user may have left it: padded lines, a blank line.
SeenFileByHand == <<" ">> \o Oak \o <<" ", "\n", "\n">>

\* The addresses a seen set can hold: the normalized Principal Addresses of the
\* registry and the lines of the file left by hand.
SeenUniverse ==
    ({DetailNormalized[k] : k \in DetailKinds} \ {<<>>})
        \cup LoadSeen(Some(SeenFileByHand))

\* SeenText and LoadSeen, computed once for each seen set and each file text.
SeenTextOf == Table([S \in SUBSET SeenUniverse |-> SeenText(S)])
LoadSeenOf ==
    Table([text \in {SeenFileByHand} \cup {SeenTextOf[S] : S \in SUBSET SeenUniverse}
              |-> LoadSeen(Some(text))])

\* Line 189: the text written to the seen store.
WriteSeen(S) == IF S \in DOMAIN SeenTextOf THEN SeenTextOf[S] ELSE SeenText(S)

\* Lines 126-130: the set read from the seen store.
ReadSeen(file) ==
    IF file # None /\ file[1] \in DOMAIN LoadSeenOf
    THEN LoadSeenOf[file[1]]
    ELSE LoadSeen(file)

\* The acceptance test without the test of the Principal Address.
AcceptsAnyPrincipal(k, S) == DetailValid[k] /\ DetailNormalized[k] \notin S

\* The acceptance test without the lookup in the seen set.
AcceptsNoDedup(k, S) == DetailValid[k] /\ DetailPrincipal[k] # <<>>

\* on_progress called with the count before the record was appended.
ProgressValueBefore(res) == Len(res) - 1

\* Lines 167-168: the number on_progress is called with, res being the results
\* after the append.
ProgressValue(res) == Len(res)

\* Lines 150-158: whether the detail page k of a row is accepted.
Accepts(k, S) ==
    /\ DetailValid[k]
    /\ DetailPrincipal[k] # <<>>
    /\ DetailNormalized[k] \notin S

\* fetch_sunbiz_data, lines 122-134: load the seen set, open the browser.
FetchCall(term, max, sp, prog) ==
    /\ fpc = "idle"
    /\ fprog' = prog
    /\ progress' = <<>>
    /\ gotos' = 0
    /\ fterm' = term
    /\ fmax' = max
    /\ fseen' = sp
    /\ results' = <<>>
    /\ seen' = IF sp # None THEN ReadSeen(seenFiles[sp[1]]) ELSE {}
    /\ seen0' = seen'
    /\ browser' = browser + 1
    /\ curPage' = 1
    /\ rowIdx' = 0
    /\ fpc' = "goto_list"
    /\ UNCHANGED <<fileVars, siteVars>>

\* The frame of a finished call is dropped: its locals are gone.
FetchFrameDropped ==
    /\ fpc' = "idle"
    /\ fterm' = TermPlumber
    /\ fmax' = None
    /\ fseen' = None
    /\ results' = <<>>
    /\ seen' = {}
    /\ seen0' = {}
    /\ curPage' = 0
    /\ rowIdx' = 0
    /\ gotos' = 0
    /\ fprog' = FALSE
    /\ progress' = <<>>
    /\ UNCHANGED browser

\* The page loads counted for one run. A run loads each listing page at most
\* twice and each detail page once, which stays below this.
MaxGotos == 3 * (MaxRows + 1) + 1

\* Lines 136-140: navigate to the listing page and extract its rows.
GotoListing ==
    /\ fpc = "goto_list"
    /\ gotos < MaxGotos
    /\ rowIdx' = 1
    /\ gotos' = gotos + 1
    /\ fpc' = RowLoop(fmax, results, curPage, 1)
    /\ UNCHANGED <<fterm, fmax, fseen, results, seen, seen0, curPage, browser, fprog,
                   progress, callerVars,
                   fileVars, siteVars>>

\* Lines 141-168: one iteration of the for loop: visit the row's detail page,
\* extract its sections, filter, deduplicate, accept.
VisitRow ==
    /\ fpc = "rows"
    /\ LET row == PageRows(curPage)[rowIdx]
           k   == site[row]
           ok  == Accepts(k, seen)
           res == IF ok
                  THEN Append(results, [row |-> row, details |-> DetailPages[k]])
                  ELSE results
       IN  /\ results' = res
           /\ seen' = IF ok THEN seen \cup {DetailNormalized[k]} ELSE seen
           /\ progress' = IF ok /\ fprog
                          THEN Append(progress, ProgressValue(res))
                          ELSE progress
           /\ rowIdx' = rowIdx + 1
           /\ gotos' = gotos + 1
           /\ fpc' = RowLoop(fmax, res, curPage, rowIdx + 1)
    /\ UNCHANGED <<fterm, fmax, fseen, seen0, curPage, browser, fprog, callerVars,
                   fileVars, siteVars>>

\* Lines 170-176: the cap check after the rows, else the listing page again and
\* its "Next List" link; leaving the while loop closes the browser.
AfterRows ==
    /\ fpc = "after_rows"
    /\ LET next == IF CapReached(fmax, results) THEN 0 ELSE GetNextListUrl(curPage)
       IN  /\ curPage' = next
           /\ fpc' = IF next = 0 THEN "persist" ELSE "goto_list"
           /\ browser' = IF next = 0 THEN browser - 1 ELSE browser
           /\ gotos' = IF CapReached(fmax, results) THEN gotos ELSE gotos + 1
    /\ UNCHANGED <<fterm, fmax, fseen, results, seen, seen0, rowIdx, fprog, progress,
                   callerVars,
                   fileVars, siteVars>>

\* The name of the text address list: f"{term_used}{len(results)}.txt".
TxtName(key, n) == [term |-> key, n |-> n]

\* The persisting that writes only the addresses accepted by this run.
PersistNewOnly ==
    /\ fpc = "persist"
    /\ jsonFile' = Some(results)
    /\ txtFiles' = txtFiles \cup {TxtName(TermClean(fterm), Len(results))}
    /\ seenFiles' = IF fseen # None /\ seen # {}
                    THEN [seenFiles EXCEPT ![fseen[1]] = Some(WriteSeen(seen \ seen0))]
                    ELSE seenFiles
    /\ fpc' = "returned"
    /\ UNCHANGED <<fterm, fmax, fseen, results, seen, seen0, curPage, rowIdx,
                   browser, gotos, fprog, progress, callerVars, siteVars>>

\* Lines 176-191: write the JSON file, the text address list and the seen store.
Persist ==
    /\ fpc = "persist"
    /\ jsonFile' = Some(results)
    /\ LET key == TermClean(fterm)
           n   == Len(results)
       IN  txtFiles' = txtFiles \cup {TxtName(key, n)}
    /\ seenFiles' = IF fseen # None /\ seen # {}
                    THEN [seenFiles EXCEPT ![fseen[1]] = Some(WriteSeen(seen))]
                    ELSE seenFiles
    /\ fpc' = "returned"
    /\ UNCHANGED <<fterm, fmax, fseen, results, seen, seen0, curPage, rowIdx,
                   browser, gotos, fprog, progress, callerVars, siteVars>>

\* A navigation error handled by writing the records accepted so far.
NavErrorSaving ==
    /\ \/ fpc \in {"goto_list", "rows"}
       \/ fpc = "after_rows" /\ ~CapReached(fmax, results)
    /\ fpc' = "raised"
    /\ browser' = browser - 1
    /\ jsonFile' = Some(results)
    /\ UNCHANGED <<fterm, fmax, fseen, results, seen, seen0, curPage, rowIdx, gotos,
                   fprog, progress, callerVars,
                   seenFiles, txtFiles, siteVars>>

\* A navigation error that leaves the call with the browser still open.
NavErrorLeak ==
    /\ \/ fpc \in {"goto_list", "rows"}
       \/ fpc = "after_rows" /\ ~CapReached(fmax, results)
    /\ fpc' = "raised"
    /\ UNCHANGED <<fterm, fmax, fseen, results, seen, seen0, curPage, rowIdx, browser,
                   gotos, fprog, progress, callerVars, fileVars, siteVars>>

\* page.goto / wait_for_load_state raising (timeout, navigation error): the
\* exception leaves the with block, which closes the browser, and the call.
NavError ==
    /\ \/ fpc \in {"goto_list", "rows"}
       \/ fpc = "after_rows" /\ ~CapReached(fmax, results)
    /\ fpc' = "raised"
    /\ browser' = browser - 1
    /\ UNCHANGED <<fterm, fmax, fseen, results, seen, seen0, curPage, rowIdx, gotos,
                   fprog, progress, callerVars,
                   fileVars, siteVars>>

\* The max_results a direct caller passes: None, or a number (main.py line 226).
MaxChoices == {None} \cup {Some(n) : n \in 0..MaxN}

\* main.py lines 215-253: one search of the interactive loop calls
\* fetch_sunbiz_data with the term's seen path.
CallFetch ==
    /\ \E max \in MaxChoices :
           FetchCall(TermPlumber, max, Some(TermClean(TermPlumber)), TRUE)
    /\ UNCHANGED callerVars

\* main.py lines 255-284: the results are shown and the loop asks again. A call
\* that raised ends the process; main.py is then started anew.
MainLoop ==
    /\ fpc \in {"returned", "raised"}
    /\ prev' = IF fpc = "returned"
               THEN Some([term |-> fterm,
                          full |-> fmax = None \/ Len(results) < fmax[1]])
               ELSE None
    /\ FetchFrameDropped
    /\ UNCHANGED <<botVars, normVars, fileVars, siteVars>>

\* The inbound messages of a behaviour, numbered in the order their handlers
\* start; message m comes from chat m.
Msgs == 1..MaxMsgs

\* Who the event loop is running: nobody (every coroutine is suspended), the
\* worker, or the handler of message m.
LoopIdle == [who |-> "none", m |-> 0]
LoopWorker == [who |-> "worker", m |-> 0]
LoopHandler(m) == [who |-> "handler", m |-> m]

InitBotVars ==
    /\ queue = <<>>
    /\ queue_size = 0
    /\ loop = LoopIdle
    /\ hpc = [m \in Msgs |-> "new"]
    /\ hparts = [m \in Msgs |-> <<>>]
    /\ hjob = [m \in Msgs |-> None]
    /\ hpos = [m \in Msgs |-> 0]
    /\ wjob = None
    /\ wtxt = None
    /\ inFlight = {}
    /\ future = None
    /\ status = [m \in Msgs |-> "new"]
    /\ enq = <<>>
    /\ enqPos = [m \in Msgs |-> 0]
    /\ jobTxt = None

InitFiles ==
    /\ seenFiles \in {[k \in TermKeys |-> None],
                      [k \in TermKeys |->
                          IF k = TermClean(TermPlumber) THEN Some(SeenFileByHand)
                          ELSE None]}
    /\ txtFiles = {}
    /\ jsonFile = None

InitFetch ==
    /\ fpc = "idle"
    /\ fterm = TermPlumber
    /\ fmax = None
    /\ fseen = None
    /\ results = <<>>
    /\ seen = {}
    /\ seen0 = {}
    /\ curPage = 0
    /\ rowIdx = 0
    /\ browser = 0
    /\ gotos = 0
    /\ fprog = FALSE
    /\ progress = <<>>

InitMain ==
    /\ prev = None

\* No string is being normalized on its own.
InitNormOff ==
    /\ npc = "off"
    /\ nAddr = <<>>
    /\ nOther = <<>>
    /\ nOnce = <<>>
    /\ nOtherOnce = <<>>
    /\ nTwice = <<>>

Init ==
    /\ site \in Sites \cup {ThreeRows}
    /\ pageSize \in 1..MaxPageSize
    /\ InitFiles
    /\ InitFetch
    /\ InitMain
    /\ max_addresses = 0
    /\ wpc = "off"
    /\ InitBotVars
    /\ InitNormOff

vars == <<siteVars, fileVars, fetchVars, mainVars, botVars, normVars>>

Next ==
    \/ CallFetch
    \/ MainLoop
    \/ GotoListing
    \/ VisitRow
    \/ AfterRows
    \/ Persist
    \/ NavError

Spec == Init /\ [][Next]_vars

\* ------------------------------------------------------------- the chat bot
\* The [telegram] max_addresses values of the configurations modelled.
MaxAddressChoices == {0, 2}

\* The second word of a message, when there is one.
CountTexts == {<<"0">>, <<"5">>, <<"-", "3">>, <<"x">>}

\* The count asked when the message has no second word (line 113).
DefaultCount == 100

DigitValue(c) == CHOOSE v \in 0..9 : <<"0","1","2","3","4","5","6","7","8","9">>[v + 1] = c

\* int(text) on a decimal text with an optional sign: None stands for
\* ValueError.
RECURSIVE ParseDigits(_, _)
ParseDigits(text, acc) ==
    IF text = <<>> THEN Some(acc)
    ELSE IF Head(text) \in Digits
         THEN ParseDigits(Tail(text), 10 * acc + DigitValue(Head(text)))
         ELSE None

ParseInt(text) ==
    IF text = <<>> THEN None
    ELSE IF Head(text) \in {"-", "+"}
         THEN LET digits == IF Tail(text) = <<>> THEN None ELSE ParseDigits(Tail(text), 0)
              IN  IF digits = None THEN None
                  ELSE Some(IF Head(text) = "-" THEN 0 - digits[1] ELSE digits[1])
         ELSE ParseDigits(text, 0)

Min(a, b) == IF a < b THEN a ELSE b
Max(a, b) == IF a > b THEN a ELSE b

\* The clamp without its lower bound.
ClampCountNoFloor(count, maxAddr) == Min(count, maxAddr)

\* Line 118: count = min(max(1, count), max_addresses)
ClampCount(count, maxAddr) == Min(Max(1, count), maxAddr)

\* The counter left as it is when a job is taken.
DecSizeForgotten(n) == n

\* Line 65: queue_size = max(0, queue_size - 1)
DecSize(n) == Max(0, n - 1)

\* The newest job taken in place of the oldest.
QueueGetNewest(q) == <<q[Len(q)], SubSeq(q, 1, Len(q) - 1)>>

\* asyncio.Queue.get: the oldest job and the rest of the FIFO.
QueueGet(q) == <<Head(q), Tail(q)>>

\* The worker going back for the next job while the executor still runs.
AfterSubmitNotAwaited == "get"

\* Lines 76-79: the worker awaits the executor's call.
AfterSubmit == "wait_fetch"

\* The worker ending when the error notice itself fails.
AfterErrorNoticeUncaught(sent) == IF sent THEN "get" ELSE "stopped"

\* Lines 96-100: the error notice is tried, its own failure is passed over.
AfterErrorNotice(sent) == "get"

\* Outcomes after which the worker has finished with a job.
Terminal == {"delivered", "no_results", "failed"}

\* handle_message, lines 105-118: the message is split, the count parsed and
\* clamped. A count that is no number is answered with the usage text.
HParse(m) ==
    /\ hpc[m] = "new"
    /\ \A k \in Msgs : k < m => hpc[k] # "new"
    /\ loop = LoopIdle
    /\ wpc # "stopped"
    /\ \E keyword \in Terms, text \in {None} \cup {Some(t) : t \in CountTexts} :
           LET parsed == IF text = None THEN Some(DefaultCount) ELSE ParseInt(text[1])
           IN  IF parsed = None
               THEN /\ hpc' = [hpc EXCEPT ![m] = "done"]
                    /\ status' = [status EXCEPT ![m] = "usage"]
                    /\ loop' = LoopIdle
                    /\ UNCHANGED <<hjob, hparts>>
               ELSE /\ hpc' = [hpc EXCEPT ![m] = "put"]
                    /\ hparts' = [hparts EXCEPT ![m] = text]
                    /\ hjob' = [hjob EXCEPT ![m] =
                                   Some([chat_id |-> m, keyword |-> keyword,
                                         count |-> ClampCount(parsed[1], max_addresses)])]
                    /\ loop' = LoopHandler(m)
                    /\ UNCHANGED status
    /\ UNCHANGED <<normVars, max_addresses, queue, queue_size, hpos, wpc, wjob, wtxt, inFlight,
                   future, enq, enqPos, jobTxt, fetchVars, mainVars, fileVars, siteVars>>

\* Line 119: await request_queue.put(...). The queue is unbounded: put does not
\* suspend.
HPut(m) ==
    /\ hpc[m] = "put"
    /\ loop = LoopHandler(m)
    /\ queue' = Append(queue, hjob[m][1])
    /\ enq' = Append(enq, m)
    /\ enqPos' = [enqPos EXCEPT ![m] = Len(queue) + 1]
    /\ status' = [status EXCEPT ![m] = "queued"]
    /\ hpc' = [hpc EXCEPT ![m] = "lock"]
    /\ UNCHANGED <<normVars, max_addresses, hparts, queue_size, loop, hjob, hpos, wpc, wjob, wtxt, inFlight,
                   future, jobTxt, fetchVars, mainVars, fileVars, siteVars>>

\* A handler that leaves the pending counter as it is.
HIncSkipped(m) ==
    /\ hpc[m] = "lock"
    /\ loop = LoopHandler(m)
    /\ hpc' = [hpc EXCEPT ![m] = "pos"]
    /\ UNCHANGED <<normVars, max_addresses, hparts, queue, queue_size, loop, hjob, hpos, wpc, wjob, wtxt,
                   inFlight, future, status, enq, enqPos, jobTxt, fetchVars, mainVars, fileVars,
                   siteVars>>

\* Lines 120-121: under queue_lock, queue_size += 1. No coroutine suspends while
\* it holds the lock, so the lock is free.
HInc(m) ==
    /\ hpc[m] = "lock"
    /\ loop = LoopHandler(m)
    /\ queue_size' = queue_size + 1
    /\ hpc' = [hpc EXCEPT ![m] = "pos"]
    /\ UNCHANGED <<normVars, max_addresses, hparts, queue, loop, hjob, hpos, wpc, wjob, wtxt, inFlight,
                   future, status, enq, enqPos, jobTxt, fetchVars, mainVars, fileVars,
                   siteVars>>

\* Lines 122-127: pos = queue_size, then the acknowledgment is sent (the
\* coroutine suspends in reply_text and ends after it: its locals are gone).
HReply(m) ==
    /\ hpc[m] = "pos"
    /\ loop = LoopHandler(m)
    /\ hpos' = [hpos EXCEPT ![m] = queue_size]
    /\ hpc' = [hpc EXCEPT ![m] = "done"]
    /\ hparts' = [hparts EXCEPT ![m] = <<>>]
    /\ loop' = LoopIdle
    /\ UNCHANGED <<normVars, max_addresses, queue, queue_size, hjob, wpc, wjob, wtxt, inFlight,
                   future, status, enq, enqPos, jobTxt, fetchVars, mainVars, fileVars,
                   siteVars>>

\* Line 63: await request_queue.get(). With a job in the queue the worker takes
\* the oldest one; with none it stays suspended in get.
WGet ==
    /\ wpc = "get"
    /\ loop \in {LoopIdle, LoopWorker}
    /\ queue # <<>>
    /\ wjob' = Some(QueueGet(queue)[1])
    /\ queue' = QueueGet(queue)[2]
    /\ status' = [status EXCEPT ![QueueGet(queue)[1].chat_id] = "dequeued"]
    /\ wtxt' = None
    /\ wpc' = "dec"
    /\ loop' = LoopWorker
    /\ UNCHANGED <<normVars, max_addresses, hparts, queue_size, hpc, hjob, hpos, inFlight, future, enq,
                   enqPos, jobTxt, fetchVars, mainVars, fileVars, siteVars>>

\* Line 63 with an empty queue: the worker suspends.
WGetWait ==
    /\ wpc = "get"
    /\ loop = LoopWorker
    /\ queue = <<>>
    /\ loop' = LoopIdle
    /\ UNCHANGED <<normVars, max_addresses, hparts, queue, queue_size, hpc, hjob, hpos, wpc, wjob, wtxt,
                   inFlight, future, status, enq, enqPos, jobTxt, fetchVars, mainVars,
                   fileVars, siteVars>>

\* Lines 64-65: the pending counter is decremented under queue_lock.
WDec ==
    /\ wpc = "dec"
    /\ loop = LoopWorker
    /\ queue_size' = DecSize(queue_size)
    /\ wpc' = "notify"
    /\ UNCHANGED <<normVars, max_addresses, hparts, queue, loop, hpc, hjob, hpos, wjob, wtxt, inFlight,
                   future, status, enq, enqPos, jobTxt, fetchVars, mainVars, fileVars,
                   siteVars>>

\* Lines 66-71: the count is capped and the start notice sent; the worker
\* suspends in send_message, which may raise.
WNotify ==
    /\ wpc = "notify"
    /\ loop = LoopWorker
    /\ wjob' = Some([wjob[1] EXCEPT !.count = Min(wjob[1].count, max_addresses)])
    /\ \E sent \in BOOLEAN :
           /\ wpc' = IF sent THEN "submit" ELSE "except"
           /\ status' = [status EXCEPT ![wjob[1].chat_id] =
                            IF sent THEN @ ELSE "failing"]
    /\ loop' = LoopIdle
    /\ UNCHANGED <<normVars, max_addresses, hparts, queue, queue_size, hpc, hjob, hpos, wtxt, inFlight,
                   future, enq, enqPos, jobTxt, fetchVars, mainVars, fileVars,
                   siteVars>>

\* Lines 72-79: the paths are built and run_fetch_sync is handed to the
\* executor.
WSubmit ==
    /\ wpc = "submit"
    /\ loop = LoopIdle
    /\ inFlight' = inFlight \cup {wjob[1].chat_id}
    /\ future' = None
    /\ jobTxt' = None
    /\ wpc' = AfterSubmit
    /\ UNCHANGED <<normVars, max_addresses, hparts, queue, queue_size, loop, hpc, hjob, hpos, wjob, wtxt,
                   status, enq, enqPos, fetchVars, mainVars, fileVars, siteVars>>

\* run_fetch_sync, lines 40-48, in the executor's thread: fetch_sunbiz_data is
\* called with the job's keyword and count and the keyword's seen path.
TStart ==
    /\ wjob # None
    /\ wjob[1].chat_id \in inFlight
    /\ status[wjob[1].chat_id] = "dequeued"
    /\ FetchCall(wjob[1].keyword, Some(wjob[1].count),
                 Some(TermClean(wjob[1].keyword)), FALSE)
    /\ status' = [status EXCEPT ![wjob[1].chat_id] = "running"]
    /\ UNCHANGED <<normVars, max_addresses, hparts, queue, queue_size, loop, hpc, hjob, hpos, wpc, wjob,
                   wtxt, inFlight, future, enq, enqPos, jobTxt, mainVars>>

\* run_fetch_sync, lines 49-55: the path of the text list when the call returned
\* records and the file exists, None otherwise and when the call raised.
TReturn ==
    /\ fpc \in {"returned", "raised"}
    /\ LET name == TxtName(TermClean(fterm), Len(results))
       IN  /\ future' = Some(IF fpc = "returned" /\ results # <<>> /\ name \in txtFiles
                             THEN Some(name) ELSE None)
           /\ jobTxt' = IF fpc = "returned" THEN Some(name) ELSE None
    /\ inFlight' = inFlight \ {wjob[1].chat_id}
    /\ status' = [status EXCEPT ![wjob[1].chat_id] = "fetched"]
    /\ FetchFrameDropped
    /\ UNCHANGED <<normVars, max_addresses, hparts, queue, queue_size, loop, hpc, hjob, hpos, wpc, wjob,
                   wtxt, enq, enqPos, mainVars, fileVars, siteVars>>

\* Lines 80-92: with no text list the requester is told so and the loop goes
\* on; else the file is uploaded. The worker suspends in either send, which
\* may raise.
WDeliver ==
    /\ wpc = "wait_fetch"
    /\ loop = LoopIdle
    /\ future # None
    /\ wtxt' = future[1]
    /\ future' = None
    /\ \E sent \in BOOLEAN :
           IF future[1] = None \/ future[1][1] \notin txtFiles
           THEN /\ wpc' = IF sent THEN "get" ELSE "except"
                /\ status' = [status EXCEPT ![wjob[1].chat_id] =
                                 IF sent THEN "no_results" ELSE "failing"]
           ELSE /\ wpc' = IF sent THEN "unlink" ELSE "except"
                /\ status' = [status EXCEPT ![wjob[1].chat_id] =
                                 IF sent THEN "uploaded" ELSE "failing"]
    /\ UNCHANGED <<normVars, max_addresses, hparts, queue, queue_size, loop, hpc, hjob, hpos, wjob,
                   inFlight, enq, enqPos, jobTxt, fetchVars, mainVars, fileVars,
                   siteVars>>

\* Line 93: txt_path.unlink(missing_ok=True), then the next turn of the loop.
WUnlink ==
    /\ wpc = "unlink"
    /\ loop = LoopIdle
    /\ txtFiles' = txtFiles \ {wtxt[1]}
    /\ status' = [status EXCEPT ![wjob[1].chat_id] = "delivered"]
    /\ wpc' = "get"
    /\ loop' = LoopWorker
    /\ UNCHANGED <<normVars, max_addresses, hparts, queue, queue_size, hpc, hjob, hpos, wjob, wtxt,
                   inFlight, future, enq, enqPos, jobTxt, fetchVars, mainVars, seenFiles,
                   jsonFile, siteVars>>

\* Lines 96-100: an exception of the job is answered with an error notice, whose
\* own failure is passed over; then the next turn of the loop.
WExcept ==
    /\ wpc = "except"
    /\ loop = LoopIdle
    /\ \E sent \in BOOLEAN : wpc' = AfterErrorNotice(sent)
    /\ status' = [status EXCEPT ![wjob[1].chat_id] = "failed"]
    /\ UNCHANGED <<normVars, max_addresses, hparts, queue, queue_size, loop, hpc, hjob, hpos, wjob, wtxt,
                   inFlight, future, enq, enqPos, jobTxt, fetchVars, mainVars, fileVars,
                   siteVars>>

\* Lines 94-95: the worker's task is cancelled while it is suspended (the
\* application shuts down: no further update is handled).
WCancel ==
    /\ wpc # "stopped"
    /\ loop = LoopIdle
    /\ wpc' = "stopped"
    /\ UNCHANGED <<normVars, max_addresses, hparts, queue, queue_size, loop, hpc, hjob, hpos, wjob, wtxt,
                   inFlight, future, status, enq, enqPos, jobTxt, fetchVars, mainVars,
                   fileVars, siteVars>>

\* The registries the bot is run against.
BotSites == {<<3>>, <<1, 5>>}

\* main(), lines 151-169: the configuration is read, the worker task created.
InitBot ==
    /\ site \in BotSites
    /\ pageSize = 1
    /\ seenFiles = [k \in TermKeys |-> None]
    /\ txtFiles = {}
    /\ jsonFile = None
    /\ InitFetch
    /\ InitMain
    /\ max_addresses \in MaxAddressChoices
    /\ wpc = "get"
    /\ InitBotVars
    /\ InitNormOff

HandlerStep == \E m \in Msgs : HParse(m) \/ HPut(m) \/ HInc(m) \/ HReply(m)

WorkerStep == WGet \/ WGetWait \/ WDec \/ WNotify \/ WSubmit \/ WDeliver \/ WUnlink \/ WExcept

ThreadStep == TStart \/ GotoListing \/ VisitRow \/ AfterRows \/ Persist \/ TReturn

NextBot ==
    \/ \E m \in Msgs : HParse(m)
    \/ \E m \in Msgs : HPut(m)
    \/ \E m \in Msgs : HInc(m)
    \/ \E m \in Msgs : HReply(m)
    \/ WGet
    \/ WGetWait
    \/ WDec
    \/ WNotify
    \/ WSubmit
    \/ WDeliver
    \/ WUnlink
    \/ WExcept
    \/ WCancel
    \/ TStart
    \/ GotoListing
    \/ VisitRow
    \/ AfterRows
    \/ Persist
    \/ NavError
    \/ TReturn

SpecBot == InitBot /\ [][NextBot]_vars

\* The bot while the application is not shut down, each coroutine and the
\* executor's thread running on when it can.
NextBotUp ==
    \/ \E m \in Msgs : HParse(m)
    \/ \E m \in Msgs : HPut(m)
    \/ \E m \in Msgs : HInc(m)
    \/ \E m \in Msgs : HReply(m)
    \/ WGet
    \/ WGetWait
    \/ WDec
    \/ WNotify
    \/ WSubmit
    \/ WDeliver
    \/ WUnlink
    \/ WExcept
    \/ TStart
    \/ GotoListing
    \/ VisitRow
    \/ AfterRows
    \/ Persist
    \/ NavError
    \/ TReturn

SpecBotFair ==
    InitBot /\ [][NextBotUp]_vars
        /\ WF_vars(HandlerStep) /\ WF_vars(WorkerStep) /\ WF_vars(ThreadStep)

\* The run without navigation errors, each step of the sequential run taken
\* in the end.
RunStep == GotoListing \/ VisitRow \/ AfterRows \/ Persist

NextNoError ==
    \/ CallFetch
    \/ MainLoop
    \/ GotoListing
    \/ VisitRow
    \/ AfterRows
    \/ Persist

SpecFair == Init /\ [][NextNoError]_vars /\ WF_vars(RunStep)

\* ------------------------------------------------- _normalize_address alone
\* The characters of the input strings: a letter, a space, two line breaks.
NormChars == {"a", " ", "\n", "\r"}

\* Every string of at most n of these characters.
RECURSIVE StringsUpTo(_)
StringsUpTo(n) ==
    IF n = 0 THEN {<<>>}
    ELSE LET shorter == StringsUpTo(n - 1)
         IN  shorter \cup {Append(x, c) : x \in {y \in shorter : Len(y) = n - 1},
                                          c \in NormChars}

NormInputs == StringsUpTo(MaxLen)

InitNormalize ==
    /\ site = <<>>
    /\ pageSize = 1
    /\ seenFiles = [k \in TermKeys |-> None]
    /\ txtFiles = {}
    /\ jsonFile = None
    /\ InitFetch
    /\ InitMain
    /\ max_addresses = 0
    /\ wpc = "off"
    /\ InitBotVars
    /\ npc = "in"
    /\ nAddr \in NormInputs
    /\ nOther \in NormInputs
    /\ nOnce = <<>>
    /\ nOtherOnce = <<>>
    /\ nTwice = <<>>

\* _normalize_address applied to each input.
Normalize ==
    /\ npc = "in"
    /\ nOnce' = NormalizeAddress(nAddr)
    /\ nOtherOnce' = NormalizeAddress(nOther)
    /\ npc' = "once"
    /\ UNCHANGED <<nAddr, nOther, nTwice, siteVars, fileVars, fetchVars, mainVars,
                   botVars>>

\* _normalize_address applied to the result of the first application.
NormalizeAgain ==
    /\ npc = "once"
    /\ nTwice' = NormalizeAddress(nOnce)
    /\ npc' = "twice"
    /\ UNCHANGED <<nAddr, nOther, nOnce, nOtherOnce, siteVars, fileVars, fetchVars,
                   mainVars, botVars>>

NextNormalize ==
    \/ Normalize
    \/ NormalizeAgain

SpecNormalize == InitNormalize /\ [][NextNormalize]_vars

\* ----------------------------------------------------------------- claims
\* The normalized Principal Address of the i-th record of results.
RecordAddress(i) == NormalizeAddress(PrincipalOf(results[i].details))

\* Rows of the chain that the run did not reach.
RowsNotReached ==
    IF results = <<>> THEN {}
    ELSE {r \in 1..Len(site) : r > results[Len(results)].row}

\* C1: with max_results = N the accepted count is at most N at every point of
\* the run, and so is the length of the returned list.
C1_AtMostMaxResults == fmax # None => Len(results) <= fmax[1]

C1_Witness ==
    /\ fpc = "returned"
    /\ fmax # None
    /\ fmax[1] >= 1
    /\ Len(results) = fmax[1]
    /\ \E r \in RowsNotReached : Accepts(site[r], seen)

\* C2: the normalized Principal Addresses of the records of a run are pairwise
\* distinct and none of them is in the seen set as loaded at the start.
C2_DistinctAndUnseen ==
    /\ \A i, j \in 1..Len(results) : i # j => RecordAddress(i) # RecordAddress(j)
    /\ \A i \in 1..Len(results) : RecordAddress(i) \notin seen0

C2_Witness ==
    /\ fpc = "returned"
    /\ Len(results) >= 1
    /\ seen0 # {}
    /\ \E r \in 1..Len(site) :
           /\ r < results[1].row
           /\ DetailValid[site[r]]
           /\ DetailNormalized[site[r]] \in seen0

\* C3: every accepted record has a Principal Address that is non-empty and is
\* not a PO Box, whatever the other address sections hold.
C3_PrincipalNotPoBox ==
    \A i \in 1..Len(results) :
        /\ "Principal Address" \in DOMAIN results[i].details
        /\ ~IsPoBoxOrEmpty(results[i].details["Principal Address"])

\* C7 as stated: a run after a successful run with the same term, the seen
\* store untouched in between and the same pages, returns no record, whatever
\* max_results either run had.
C7_RerunReturnsNothing ==
    (fpc = "returned" /\ prev # None /\ prev[1].term = fterm /\ fseen # None)
        => results = <<>>

\* C7 amended: the same, when the cap did not stop the first run (its
\* max_results unset, or more than the number of records it returned).
C7_RerunAfterFullRun ==
    (fpc = "returned" /\ prev # None /\ prev[1].term = fterm /\ fseen # None
         /\ prev[1].full)
        => results = <<>>

C7_Witness ==
    /\ fpc = "returned"
    /\ prev # None
    /\ prev[1].term = fterm
    /\ prev[1].full
    /\ fmax = None
    /\ results = <<>>
    /\ Cardinality(seen0) >= 2
    /\ \E r \in 1..Len(site) : DetailValid[site[r]]

\* C8: over a finite chain of listing pages and without navigation errors a
\* run that has started returns, whatever max_results is.
C8_RunReturns == (fpc = "goto_list") ~> (fpc = "returned")

C8_Witness ==
    /\ fpc = "returned"
    /\ fmax = None
    /\ NumPages >= 2
    /\ Len(results) >= 1

\* Job a was put in the queue before job b.
PutBefore(a, b) ==
    \E i, j \in 1..Len(enq) : i < j /\ enq[i] = a /\ enq[j] = b

\* The worker has taken the job of message m.
Taken(m) == status[m] \notin {"new", "queued", "usage"}

\* C4: jobs are served in the order they were put: when the worker has taken
\* a job (and so before its pipeline run starts), every job put before it has
\* reached its terminal outcome.
C4_Fifo ==
    \A a, b \in Msgs : (PutBefore(a, b) /\ Taken(b)) => status[a] \in Terminal

C4_Witness ==
    /\ status[2] = "running"
    /\ status[1] \in Terminal
    /\ enqPos[2] = 2

\* C5: at most one pipeline run, with its browser session, is in flight at any
\* time, also while handlers put new jobs.
C5_OneRunInFlight == Cardinality(inFlight) <= 1 /\ browser <= 1

C5_Witness ==
    /\ inFlight # {}
    /\ browser = 1
    /\ fpc = "rows"
    /\ Len(queue) >= 1

\* C6: no failure of a job stops the worker; a job put in the queue leaves it
\* only by being taken by the worker; and again and again no job is left
\* waiting, so that every job put is taken and started in the end.
C6_WorkerGoesOn ==
    /\ [](wpc # "stopped")
    /\ [][\A m \in Msgs : status[m] = "queued" => (status'[m] = "queued" \/ Taken(m)')]_vars
    /\ []<>(\A m \in Msgs : status[m] # "queued")

C6_Witness ==
    /\ status[1] = "failed"
    /\ wpc = "get"
    /\ Taken(2)
    /\ enqPos[2] = 2

\* C9: the position told to the requester is the position of the new job in
\* the FIFO, counting the new job.
C9_PositionIsFifoPosition ==
    \A m \in Msgs : (hpc[m] = "done" /\ status[m] # "usage") => hpos[m] = enqPos[m]

C9_Witness ==
    /\ hpc[2] = "done"
    /\ hpos[2] = 1
    /\ status[2] = "queued"
    /\ Taken(1)

\* C10: when the worker has finished with a job, whatever the outcome, the
\* text address list its pipeline run wrote is no longer in the data directory.
C10_NoArtifactLeft ==
    (wjob # None /\ status[wjob[1].chat_id] \in Terminal /\ jobTxt # None)
        => jobTxt[1] \notin txtFiles

\* C11: the browser session of a run is released on every exit path: when the
\* call has left the with block (before persisting, after returning, after
\* raising) no session is open, and while a run is inside it exactly one
\* session, opened by that run, is open.
C11_BrowserReleased ==
    /\ fpc \in {"idle", "persist", "returned", "raised"} => browser = 0
    /\ fpc \in {"goto_list", "rows", "after_rows"} => browser = 1

C11_Witness ==
    /\ fpc = "raised"
    /\ results # <<>>
    /\ browser = 0
    /\ wjob # None
    /\ status[wjob[1].chat_id] = "running"

\* The count a message asks for: its second word, 100 when it has none.
Requested(m) == IF hparts[m] = <<>> THEN 100 ELSE ParseInt(hparts[m][1])[1]

\* r brought into the interval [1, max_addresses].
Clamped(r) == IF r < 1 THEN 1 ELSE IF r > max_addresses THEN max_addresses ELSE r

CountInRange(c) == 1 <= c /\ c <= max_addresses

\* The count of the job a handler builds is the requested count brought into
\* [1, max_addresses], and so are the counts of the queued jobs and the
\* max_results of the run the worker starts.
CountsInInterval ==
    /\ \A m \in Msgs :
           hpc[m] \in {"put", "lock", "pos"}
               => /\ CountInRange(hjob[m][1].count)
                  /\ hjob[m][1].count = Clamped(Requested(m))
    /\ \A i \in 1..Len(queue) : CountInRange(queue[i].count)
    /\ (wjob # None /\ fpc # "idle") => (fmax # None /\ CountInRange(fmax[1]))

\* C12: for every message and every configured maximum, the count of the job
\* and the max_results passed to the pipeline lie in [1, max_addresses], 100
\* being the requested count of a message without one.
C12_CountInInterval == CountsInInterval

\* C12, for a configured maximum of at least 1.
C12_CountInIntervalPositiveMax == max_addresses >= 1 => CountsInInterval

C12_Witness ==
    /\ max_addresses = 2
    /\ fpc = "rows"
    /\ fmax = Some(1)
    /\ hpc[2] = "put"
    /\ hparts[2] = <<>>
    /\ hjob[2][1].count = 2

\* s with each maximal run of whitespace replaced by one mark: two strings
\* with the same skeleton differ only in line breaks and runs of whitespace.
RECURSIVE Skeleton(_, _)
Skeleton(s, inRun) ==
    IF s = <<>> THEN <<>>
    ELSE IF IsSpace(Head(s))
         THEN (IF inRun THEN <<>> ELSE <<"~">>) \o Skeleton(Tail(s), TRUE)
         ELSE <<Head(s)>> \o Skeleton(Tail(s), FALSE)

\* C13: normalizing twice gives what normalizing once gives, and two strings
\* that differ only in line breaks and runs of whitespace have the same
\* normalized value.
C13_NormalizeIdempotent ==
    /\ npc = "twice" => nTwice = nOnce
    /\ (npc \in {"once", "twice"} /\ Skeleton(nAddr, FALSE) = Skeleton(nOther, FALSE))
           => nOnce = nOtherOnce

C13_Witness ==
    /\ npc = "twice"
    /\ nAddr = <<"a", "\n", "a">>
    /\ nOther = <<"a", " ", "a">>
    /\ nOnce = <<"a", " ", "a">>
    /\ nTwice = nOnce

\* The detail sections of the row the for loop stands at.
DetailsHere == DetailPages[site[PageRows(curPage)[rowIdx]]]

\* What the acceptance of a row is said to depend on.
ShouldAccept(details, S) ==
    /\ HasValidAddress(details)
    /\ "Principal Address" \in DOMAIN details
    /\ details["Principal Address"] # <<>>
    /\ NormalizeAddress(details["Principal Address"]) \notin S

\* C14: a visited row produces a record exactly when its detail sections hold a
\* valid address, its Principal Address is present and not empty, and its
\* normalized Principal Address is not in the seen set; a rejected row leaves
\* results and seen as they are. The rows PO Box 9, 100 Oak Ave, 100 Oak Ave
\* with an empty seen set give one record and a seen set of one address.
C14_AcceptedIff ==
    /\ [][(fpc = "rows" /\ rowIdx' = rowIdx + 1) =>
              IF ShouldAccept(DetailsHere, seen)
              THEN /\ Len(results') = Len(results) + 1
                   /\ results'[Len(results')].details = DetailsHere
                   /\ seen' = seen \cup {NormalizeAddress(DetailsHere["Principal Address"])}
              ELSE /\ results' = results
                   /\ seen' = seen]_vars
    /\ [](  (site = ThreeRows /\ fpc = "returned" /\ seen0 = {} /\ fmax # Some(0))
           => (/\ Len(results) = 1
               /\ results[1].details["Principal Address"] = Oak
               /\ Cardinality(seen) = 1))

C14_Witness ==
    /\ site = ThreeRows
    /\ fpc = "returned"
    /\ seen0 = {}
    /\ fmax = None
    /\ Len(results) = 1
    /\ results[1].row = 2
    /\ seen = {NormalizeAddress(Oak)}

\* The positions of a run inside the browser block.
Navigating == {"goto_list", "rows", "after_rows"}

\* C15: a run raises only out of its navigation and extraction, and from the
\* call up to the raise no step changes the JSON file, the text address lists
\* or the seen-store files, whatever has been accepted in memory.
C15_ErrorLeavesFiles ==
    /\ [][(fpc' = "raised" /\ fpc # "raised") => fpc \in Navigating]_vars
    /\ [][(fpc \in Navigating \cup {"idle"} /\ fpc' \in Navigating \cup {"raised"})
              => (jsonFile' = jsonFile /\ txtFiles' = txtFiles /\ seenFiles' = seenFiles)]_vars

C15_Witness ==
    /\ fpc = "raised"
    /\ Len(results) = 1
    /\ jsonFile # None
    /\ Len(jsonFile[1]) = 1
    /\ jsonFile[1] # results
    /\ fseen # None
    /\ seenFiles[fseen[1]] # None
    /\ seen # ReadSeen(seenFiles[fseen[1]])

\* The accepted count has reached maxResults.
CountReached == fmax # None /\ Len(results) >= fmax[1]

\* C16 as stated: once the accepted count has reached maxResults, no step of the
\* run up to and including its persisting loads a page.
C16_NoNavigationAtCap ==
    [][(fpc \in Navigating \cup {"persist"} /\ CountReached) => gotos' = gotos]_vars

\* C16: once the accepted count has reached maxResults, no step of the run up to
\* and including its persisting loads a page, except that a run whose
\* maxResults is 0 still loads the first listing page.
C16_NoNavigationAtCapButFirstPage ==
    [][(fpc \in Navigating \cup {"persist"} /\ CountReached /\ (fmax[1] >= 1 \/ gotos >= 1))
          => gotos' = gotos]_vars

C16_Witness ==
    /\ fpc = "returned"
    /\ fmax = Some(1)
    /\ Len(results) = 1
    /\ results[1].row = 1
    /\ Len(site) = 2
    /\ pageSize = 1
    /\ gotos = 2

\* C17: the records of a run stand in the order their rows were visited (rows
\* are numbered along the chain of listing pages, in table order), and a given
\* on_progress has been called once per accepted record, with 1, 2, ..., k.
C17_EncounterOrder ==
    /\ \A i, j \in 1..Len(results) : i < j => results[i].row < results[j].row
    /\ fprog => progress = [i \in 1..Len(results) |-> i]

C17_Witness ==
    /\ fpc = "returned"
    /\ fprog
    /\ pageSize = 1
    /\ Len(results) = 2
    /\ results[1].row = 1
    /\ results[2].row = 2
    /\ progress = <<1, 2>>

\* No handler stands between its put and its increment, and the worker does not
\* stand between its get and its decrement.
CounterSettled == (\A m \in Msgs : hpc[m] # "lock") /\ wpc # "dec"

\* C18: queue_size is never negative, it is the length of request_queue whenever
\* no handler is between put and increment and the worker is not between get
\* and decrement, and it is the length of request_queue again and again.
C18_CounterIsQueueLength ==
    /\ [](queue_size >= 0)
    /\ [](CounterSettled => queue_size = Len(queue))
    /\ []<>(queue_size = Len(queue))

C18_Witness ==
    /\ queue_size = 1
    /\ Len(queue) = 1
    /\ wjob # None
    /\ wpc = "wait_fetch"
    /\ hpc[1] = "done"
    /\ hpc[2] = "done"
    /\ queue[1].chat_id = 2

\* The set a later run would load from the seen store of term key k.
Persisted(k) == ReadSeen(seenFiles[k])

\* C19: when a run with a seen-store path has returned, the seen store holds the
\* set loaded at the start of the run together with the normalized Principal
\* Addresses of the returned records and nothing else; and no step ever removes
\* an entry from a seen store.
C19_SeenStoreGrows ==
    /\ []((fpc = "returned" /\ fseen # None) =>
             Persisted(fseen[1]) = seen0 \cup {RecordAddress(i) : i \in 1..Len(results)})
    /\ [][\A k \in TermKeys : Persisted(k) \subseteq Persisted(k)']_vars

C19_Witness ==
    /\ fpc = "returned"
    /\ fseen # None
    /\ seen0 = {Oak}
    /\ Len(results) = 1
    /\ RecordAddress(1) = Elm
    /\ Persisted(fseen[1]) = {Oak, Elm}

====
